---------------------------- MODULE Spec2Model ----------------------------
(* Model of java/spring-boot/script-coverage.py: the pipeline              *)
(*   get_git_diff_lines -> parse_lcov_report -> filter_lcov_by_git_diff    *)
(*   -> save_filtered_lcov_report, sequenced by main.                      *)
(*                                                                         *)
(* A Python str is a sequence of one-character strings, so that split,     *)
(* strip, startswith, the substring test and int() are computed on the     *)
(* characters.  A Python dict is a sequence of [key, val] records in       *)
(* insertion order; assigning an existing key replaces its value in place. *)
EXTENDS Integers, Sequences, FiniteSets, TLC

VARIABLES
  pc,                \* position of the run
  numstat,           \* what the diff command reports: the entries behind stdout
  returncode,        \* result.returncode of the diff command
  stdout,            \* result.stdout of the diff command
  report_exists,     \* os.path.exists(lcov_report_path)
  report,            \* the lines of the LCOV report file
  git_diff_changes,  \* the ChangeSet
  coverage_data,     \* the parsed CoverageReport
  filtered_coverage, \* the filter's result
  refiltered,        \* the filter applied to its own result
  output_file,       \* the output file: NoFile, or the lines written
  error,             \* the exception that ended the run, or NoError
  started            \* the steps of main started so far, in order

vars == <<pc, numstat, returncode, stdout, report_exists, report,
          git_diff_changes, coverage_data, filtered_coverage, refiltered,
          output_file, error, started>>

----------------------------------------------------------------------------
(* Bounds of the model *)

MaxDiffLines == 2
MaxReportLines == 3
MaxFiles == 2
MaxDA == 2
MaxRecords == 2
MaxLine == 2

----------------------------------------------------------------------------
(* Python str *)

TAB == "\t"
NL == "\n"
SPACE == " "
Whitespace == {SPACE, TAB, NL}
Digits == {"0", "1", "2", "3", "4", "5", "6", "7", "8", "9"}

DigitValue(c) ==
  CASE c = "0" -> 0 [] c = "1" -> 1 [] c = "2" -> 2 [] c = "3" -> 3
    [] c = "4" -> 4 [] c = "5" -> 5 [] c = "6" -> 6 [] c = "7" -> 7
    [] c = "8" -> 8 [] c = "9" -> 9

DigitChar(n) ==
  CASE n = 0 -> "0" [] n = 1 -> "1" [] n = 2 -> "2" [] n = 3 -> "3"
    [] n = 4 -> "4" [] n = 5 -> "5" [] n = 6 -> "6" [] n = 7 -> "7"
    [] n = 8 -> "8" [] n = 9 -> "9"

\* s[n:]
Drop(s, n) == SubSeq(s, n + 1, Len(s))

\* s.startswith(p)
StartsWith(s, p) == Len(p) <= Len(s) /\ SubSeq(s, 1, Len(p)) = p

\* sub in s
IsSubstring(sub, s) ==
  \E i \in 0..(Len(s) - Len(sub)) : SubSeq(s, i + 1, i + Len(sub)) = sub

\* s.isdigit()
IsDigit(s) == Len(s) > 0 /\ \A i \in DOMAIN s : s[i] \in Digits

\* int(s) succeeds (decimal digits; signs, blanks and underscores are not modelled)
IsInt(s) == IsDigit(s)

RECURSIVE ToInt(_)
\* int(s) for a string of decimal digits
ToInt(s) ==
  IF Len(s) = 0 THEN 0
  ELSE 10 * ToInt(SubSeq(s, 1, Len(s) - 1)) + DigitValue(s[Len(s)])

RECURSIVE IntToStr(_)
\* str(n) for n >= 0, as an f-string formats it
IntToStr(n) ==
  IF n < 10 THEN <<DigitChar(n)>>
  ELSE Append(IntToStr(n \div 10), DigitChar(n % 10))

RECURSIVE SplitSep(_, _, _)
\* s.split(sep) for a one-character sep: empty fields are kept
SplitSep(s, sep, cur) ==
  IF Len(s) = 0 THEN <<cur>>
  ELSE IF Head(s) = sep THEN <<cur>> \o SplitSep(Tail(s), sep, <<>>)
  ELSE SplitSep(Tail(s), sep, Append(cur, Head(s)))

RECURSIVE SplitWs(_, _)
\* s.split(): fields separated by runs of whitespace, no empty field
SplitWs(s, cur) ==
  IF Len(s) = 0 THEN (IF Len(cur) = 0 THEN <<>> ELSE <<cur>>)
  ELSE IF Head(s) \in Whitespace
       THEN (IF Len(cur) = 0 THEN <<>> ELSE <<cur>>) \o SplitWs(Tail(s), <<>>)
  ELSE SplitWs(Tail(s), Append(cur, Head(s)))

RECURSIVE SplitLines(_, _)
\* s.splitlines(): lines ended by a newline, no empty last line
SplitLines(s, cur) ==
  IF Len(s) = 0 THEN (IF Len(cur) = 0 THEN <<>> ELSE <<cur>>)
  ELSE IF Head(s) = NL THEN <<cur>> \o SplitLines(Tail(s), <<>>)
  ELSE SplitLines(Tail(s), Append(cur, Head(s)))

RECURSIVE LStrip(_)
LStrip(s) ==
  IF Len(s) > 0 /\ Head(s) \in Whitespace THEN LStrip(Tail(s)) ELSE s

RECURSIVE RStrip(_)
RStrip(s) ==
  IF Len(s) > 0 /\ s[Len(s)] \in Whitespace
  THEN RStrip(SubSeq(s, 1, Len(s) - 1)) ELSE s

\* s.strip()
Strip(s) == RStrip(LStrip(s))

----------------------------------------------------------------------------
(* Python dict, in insertion order *)

EmptyDict == <<>>

DictKeys(d) == {d[i].key : i \in DOMAIN d}

DictGet(d, k) == d[CHOOSE i \in DOMAIN d : d[i].key = k].val

\* d[k] = v
DictSet(d, k, v) ==
  IF k \in DictKeys(d)
  THEN [i \in DOMAIN d |-> IF d[i].key = k THEN [key |-> k, val |-> v] ELSE d[i]]
  ELSE Append(d, [key |-> k, val |-> v])

\* set(range(1, n + 1))
RangeSet(n) == 1..n

----------------------------------------------------------------------------
(* get_git_diff_lines *)

DiffHeader == <<"d", "i", "f", "f", " ", "-", "-", "g", "i", "t">>

\* The loop body of get_git_diff_lines for one line of stdout.
DiffLine(changes, line) ==
  IF StartsWith(line, DiffHeader) THEN changes
  ELSE LET parts == SplitWs(line, <<>>) IN
       IF Len(parts) = 3 /\ IsDigit(parts[1])
       THEN DictSet(changes, parts[3], RangeSet(ToInt(parts[1])))
       ELSE changes

RECURSIVE DiffLoop(_, _, _)
DiffLoop(lines, i, changes) ==
  IF i > Len(lines) THEN changes
  ELSE DiffLoop(lines, i + 1, DiffLine(changes, lines[i]))

\* The dictionary get_git_diff_lines returns when the command exits with 0.
get_git_diff_lines(out) == DiffLoop(SplitLines(out, <<>>), 1, EmptyDict)

\* Whether get_git_diff_lines raises for this result of the command.
DiffRaises(rc) == rc # 0


----------------------------------------------------------------------------
(* parse_lcov_report *)

NoError == "none"

SFTag == <<"S", "F", ":">>
DATag == <<"D", "A", ":">>
FNTag == <<"F", "N", ":">>
FNDATag == <<"F", "N", "D", "A", ":">>
FNFTag == <<"F", "N", "F", ":">>
FNHTag == <<"F", "N", "H", ":">>
LHTag == <<"L", "H", ":">>
LFTag == <<"L", "F", ":">>
EndOfRecord ==
  <<"e", "n", "d", "_", "o", "f", "_", "r", "e", "c", "o", "r", "d">>
Comma == ","

\* The record a SF: line creates.
NewRecord ==
  [DA |-> <<>>, FN |-> <<>>, FNDA |-> <<>>, FNF |-> 0, FNH |-> 0, LH |-> 0, LF |-> 0]

\* The locals of parse_lcov_report before the first line: coverage_data = {},
\* current_file = None and coverage_record = None (has = FALSE).
ParseStart == [data |-> EmptyDict, cur |-> <<>>, has |-> FALSE, err |-> NoError]

\* coverage_record[field] = value, or coverage_record[field].append(value):
\* a TypeError while coverage_record is None.
SetField(st, field, value) ==
  IF ~st.has THEN [st EXCEPT !.err = "TypeError"]
  ELSE [st EXCEPT !.data =
          DictSet(st.data, st.cur, [DictGet(st.data, st.cur) EXCEPT ![field] = value])]

AppendField(st, field, value) ==
  IF ~st.has THEN [st EXCEPT !.err = "TypeError"]
  ELSE SetField(st, field, Append(DictGet(st.data, st.cur)[field], value))

\* coverage_record[field] = int(text)
SetIntField(st, field, text) ==
  IF ~IsInt(text) THEN [st EXCEPT !.err = "ValueError"]
  ELSE SetField(st, field, ToInt(text))

\* Mutant: a DA line whose line number the record already holds is dropped.
ParseDAOncePerLine(st, body) ==
  LET parts == SplitSep(body, Comma, <<>>) IN
  IF ~IsInt(parts[1]) THEN [st EXCEPT !.err = "ValueError"]
  ELSE IF Len(parts) < 2 THEN [st EXCEPT !.err = "IndexError"]
  ELSE IF ~IsInt(parts[2]) THEN [st EXCEPT !.err = "ValueError"]
  ELSE IF st.has /\ \E e \in {DictGet(st.data, st.cur).DA[i] :
                               i \in DOMAIN DictGet(st.data, st.cur).DA} :
                      e[1] = ToInt(parts[1])
  THEN st
  ELSE AppendField(st, "DA", <<ToInt(parts[1]), ToInt(parts[2])>>)

\* The branch of a DA: line.
ParseDA(st, body) ==
  LET parts == SplitSep(body, Comma, <<>>) IN
  IF ~IsInt(parts[1]) THEN [st EXCEPT !.err = "ValueError"]
  ELSE IF Len(parts) < 2 THEN [st EXCEPT !.err = "IndexError"]
  ELSE IF ~IsInt(parts[2]) THEN [st EXCEPT !.err = "ValueError"]
  ELSE AppendField(st, "DA", <<ToInt(parts[1]), ToInt(parts[2])>>)

\* The loop body of parse_lcov_report for one line of the file.
ParseLine(st, raw) ==
  LET line == Strip(raw) IN
  IF StartsWith(line, SFTag)
  THEN [st EXCEPT !.data = DictSet(st.data, Drop(line, 3), NewRecord),
                  !.cur = Drop(line, 3), !.has = TRUE]
  ELSE IF StartsWith(line, DATag) THEN ParseDA(st, Drop(line, 3))
  ELSE IF StartsWith(line, FNTag) THEN AppendField(st, "FN", Drop(line, 3))
  ELSE IF StartsWith(line, FNDATag) THEN AppendField(st, "FNDA", Drop(line, 5))
  ELSE IF StartsWith(line, FNFTag) THEN SetIntField(st, "FNF", Drop(line, 4))
  ELSE IF StartsWith(line, FNHTag) THEN SetIntField(st, "FNH", Drop(line, 4))
  ELSE IF StartsWith(line, LHTag) THEN SetIntField(st, "LH", Drop(line, 3))
  ELSE IF StartsWith(line, LFTag) THEN SetIntField(st, "LF", Drop(line, 3))
  ELSE st

RECURSIVE ParseLoop(_, _, _)
ParseLoop(lines, i, st) ==
  IF i > Len(lines) \/ st.err # NoError THEN st
  ELSE ParseLoop(lines, i + 1, ParseLine(st, lines[i]))

\* parse_lcov_report: err is the exception raised (NoError when it returns), data
\* the dictionary returned.
parse_lcov_report(exists, lines) ==
  IF ~exists THEN [ParseStart EXCEPT !.err = "FileNotFoundError"]
  ELSE ParseLoop(lines, 1, ParseStart)

----------------------------------------------------------------------------
(* filter_lcov_by_git_diff *)

\* Mutant: the operands of the substring test swapped (file in cd).
MatchesReversed(cd, file) == IsSubstring(file, cd)

\* cd in file
Matches(cd, file) == IsSubstring(cd, file)

\* Mutant: the membership test compares against the number of changed lines.
KeepsLineUpToCount(line, changed_lines) == line <= Cardinality(changed_lines) + 1

\* line in changed_lines
KeepsLine(line, changed_lines) == line \in changed_lines

\* [(line, hits) for line, hits in data['DA'] if line in changed_lines]
FilteredDA(da, changed_lines) ==
  LET Kept(e) == KeepsLine(e[1], changed_lines) IN SelectSeq(da, Kept)

\* Mutant: LH counts only the entries that were hit.
FilteredLHHitOnly(data, filtered_da) ==
  Cardinality({i \in DOMAIN filtered_da : filtered_da[i][2] > 0})

\* filtered_lh = len(filtered_da)
FilteredLH(data, filtered_da) == Len(filtered_da)

\* Mutant: LF counts the distinct line numbers of the unfiltered DA list.
FilteredLFUnfiltered(data, filtered_da) ==
  Cardinality({data.DA[i][1] : i \in DOMAIN data.DA})

\* filtered_lf = len(set(line for line, _ in filtered_da))
FilteredLF(data, filtered_da) ==
  Cardinality({filtered_da[i][1] : i \in DOMAIN filtered_da})

\* Mutant: the emptiness test left out.
IsKeptAlways(filtered_da) == TRUE

\* if filtered_da:
IsKept(filtered_da) == Len(filtered_da) > 0

\* Mutant: the function summaries recomputed for the filtered record.
FilteredRecordRecounted(data, filtered_da) ==
  [FN |-> data.FN, FNDA |-> data.FNDA, FNF |-> Len(data.FN), FNH |-> 0,
   DA |-> filtered_da,
   LH |-> Len(filtered_da),
   LF |-> Cardinality({filtered_da[i][1] : i \in DOMAIN filtered_da})]

\* The record stored for a match whose filtered DA list is not empty.
FilteredRecord(data, filtered_da) ==
  [FN |-> data.FN, FNDA |-> data.FNDA, FNF |-> data.FNF, FNH |-> data.FNH,
   DA |-> filtered_da,
   LH |-> FilteredLH(data, filtered_da),
   LF |-> FilteredLF(data, filtered_da)]

\* Mutant: a record already stored for cd is kept (the first match wins).
StoreRecordOnce(acc, cd, rec) ==
  IF cd \in DictKeys(acc) THEN acc ELSE DictSet(acc, cd, rec)

\* filtered_coverage[cd] = {...}
StoreRecord(acc, cd, rec) == DictSet(acc, cd, rec)

\* The body of the inner loop for one (file, cd) pair.
FilterPair(file, changed_lines, cd, data, acc) ==
  IF Matches(cd, file)
  THEN LET filtered_da == FilteredDA(data.DA, changed_lines) IN
       IF IsKept(filtered_da)
       THEN StoreRecord(acc, cd, FilteredRecord(data, filtered_da))
       ELSE acc
  ELSE acc

RECURSIVE FilterInner(_, _, _, _, _)
\* for cd in coverage_data.keys()
FilterInner(file, changed_lines, cov, j, acc) ==
  IF j > Len(cov) THEN acc
  ELSE FilterInner(file, changed_lines, cov, j + 1,
                   FilterPair(file, changed_lines, cov[j].key, cov[j].val, acc))

RECURSIVE FilterOuter(_, _, _, _)
\* for file, changed_lines in git_diff_changes.items()
FilterOuter(changes, cov, i, acc) ==
  IF i > Len(changes) THEN acc
  ELSE FilterOuter(changes, cov, i + 1,
                   FilterInner(changes[i].key, changes[i].val, cov, 1, acc))

filter_lcov_by_git_diff(changes, cov) == FilterOuter(changes, cov, 1, EmptyDict)

----------------------------------------------------------------------------
(* save_filtered_lcov_report *)

NoFile == <<"<absent>">>

\* The lines written for the DA list.
DALines(da) ==
  [i \in DOMAIN da |-> DATag \o IntToStr(da[i][1]) \o <<Comma>> \o IntToStr(da[i][2])]

\* The lines written for one record.
RecordLines(file, data) ==
  <<SFTag \o file>>
  \o [i \in DOMAIN data.FN |-> FNTag \o data.FN[i]]
  \o [i \in DOMAIN data.FNDA |-> FNDATag \o data.FNDA[i]]
  \o <<FNFTag \o IntToStr(data.FNF), FNHTag \o IntToStr(data.FNH)>>
  \o DALines(data.DA)
  \o <<LHTag \o IntToStr(data.LH), LFTag \o IntToStr(data.LF), EndOfRecord>>

RECURSIVE SaveLoop(_, _)
SaveLoop(filtered, i) ==
  IF i > Len(filtered) THEN <<>>
  ELSE RecordLines(filtered[i].key, filtered[i].val) \o SaveLoop(filtered, i + 1)

\* The content of the output file after save_filtered_lcov_report returns.
save_filtered_lcov_report(filtered) == SaveLoop(filtered, 1)

----------------------------------------------------------------------------
(* Inputs *)

\* Sequences over S of length at most n.
SeqsUpTo(S, n) == UNION {[1..k -> S] : k \in 0..n}

\* Sequences over S of length at most n that repeat no element.
DistinctSeqs(S, n) ==
  {q \in SeqsUpTo(S, n) : \A i, j \in DOMAIN q : q[i] = q[j] => i = j}

\* Dictionaries of at most n entries with keys in K and values in V.
DictsUpTo(K, V, n) ==
  UNION {{[i \in DOMAIN ks |-> [key |-> ks[i], val |-> vs[i]]] :
            vs \in [DOMAIN ks -> V]} : ks \in DistinctSeqs(K, n)}

\* Paths the diff reports, and SF: paths of the report: "b" lies in both of
\* the diff's paths, "ab" only in "aab", and the diff's "b" lies in "ab".
CsKeys == {<<"b">>, <<"a", "a", "b">>}
CovKeys == {<<"b">>, <<"a", "b">>}

LineSets == SUBSET (1..MaxLine)
ChangeSets == DictsUpTo(CsKeys, LineSets, MaxFiles)

\* The hit count of the i-th DA line of a record.  The program never reads a hit
\* count, so the position decides it: entries that repeat a line number differ.
HitsAt(i) == IF i % 2 = 1 THEN 0 ELSE 4

DALists ==
  {[i \in DOMAIN ls |-> <<ls[i], HitsAt(i)>>] : ls \in SeqsUpTo(1..MaxLine, MaxDA)}

\* The function data and the summaries a parsed record carries: a record with
\* one function and stale LH and LF for "b", one without functions for "ab".
NoFunctions == [FN |-> <<>>, FNDA |-> <<>>, FNF |-> 0, FNH |-> 0, LH |-> 0, LF |-> 0]
OneFunction ==
  [FN |-> << <<"1", ",", "f">> >>, FNDA |-> << <<"4", ",", "f">> >>,
   FNF |-> 1, FNH |-> 1, LH |-> 5, LF |-> 7]
FunctionDataOf(k) == IF k = <<"b">> THEN OneFunction ELSE NoFunctions

CoverageRecord(da, f) ==
  [DA |-> da, FN |-> f.FN, FNDA |-> f.FNDA, FNF |-> f.FNF, FNH |-> f.FNH,
   LH |-> f.LH, LF |-> f.LF]

CoverageReports ==
  {[i \in DOMAIN d |-> [key |-> d[i].key,
                        val |-> CoverageRecord(d[i].val, FunctionDataOf(d[i].key))]] :
     d \in DictsUpTo(CovKeys, DALists, MaxRecords)}

----------------------------------------------------------------------------
(* FilterSpec: filter_lcov_by_git_diff on any ChangeSet and CoverageReport,    *)
(* then on its own result with the same ChangeSet.                             *)

FilterInit ==
  /\ pc = "start"
  /\ git_diff_changes \in ChangeSets
  /\ coverage_data \in CoverageReports
  /\ filtered_coverage = EmptyDict
  /\ refiltered = EmptyDict
  /\ numstat = <<>> /\ returncode = 0 /\ stdout = <<>>
  /\ report_exists = TRUE /\ report = <<>>
  /\ output_file = NoFile /\ error = NoError /\ started = <<>>

Filter ==
  /\ pc = "start"
  /\ filtered_coverage' = filter_lcov_by_git_diff(git_diff_changes, coverage_data)
  /\ pc' = "filtered"
  /\ UNCHANGED <<numstat, returncode, stdout, report_exists, report,
                 git_diff_changes, coverage_data, refiltered, output_file,
                 error, started>>

Refilter ==
  /\ pc = "filtered"
  /\ refiltered' = filter_lcov_by_git_diff(git_diff_changes, filtered_coverage)
  /\ pc' = "refiltered"
  /\ UNCHANGED <<numstat, returncode, stdout, report_exists, report,
                 git_diff_changes, coverage_data, filtered_coverage, output_file,
                 error, started>>

FilterNext == Filter \/ Refilter

FilterSpec == FilterInit /\ [][FilterNext]_vars

----------------------------------------------------------------------------
(* Properties of filter_lcov_by_git_diff, under FilterSpec *)

\* The filter has returned (the second pass leaves its first result as it is).
Filtered == pc = "filtered"

\* The line numbers of a DA list.
DALineSet(da) == {da[i][1] : i \in DOMAIN da}

\* The entries of a DA list.
DAEntries(da) == {da[i] : i \in DOMAIN da}

\* The positions of the ChangeSet whose key contains the coverage key k.
MatchesOf(k) ==
  {i \in DOMAIN git_diff_changes : IsSubstring(k, git_diff_changes[i].key)}

\* Those of them whose line set meets the DA lines of the parsed record of k.
LiveMatchesOf(k) ==
  {i \in MatchesOf(k) :
     git_diff_changes[i].val \cap DALineSet(DictGet(coverage_data, k).DA) # {}}

Max(S) == CHOOSE x \in S : \A y \in S : y <= x

\* C1: every DA line number of an output record lies in the line set of a
\* changeset key that matched the record's coverage key, and every (line, hits)
\* entry of the output record is an entry of the parsed record of the same key.
C1_Subset ==
  Filtered =>
    \A n \in DOMAIN filtered_coverage :
      LET k == filtered_coverage[n].key
          da == filtered_coverage[n].val.DA IN
      /\ k \in DictKeys(coverage_data)
      /\ \E i \in MatchesOf(k) : DALineSet(da) \subseteq git_diff_changes[i].val
      /\ DAEntries(da) \subseteq DAEntries(DictGet(coverage_data, k).DA)

\* A record survives with fewer DA entries than it was parsed with.
C1_Witness ==
  /\ Filtered
  /\ \E n \in DOMAIN filtered_coverage :
       Len(filtered_coverage[n].val.DA) <
         Len(DictGet(coverage_data, filtered_coverage[n].key).DA)

\* C2: filtering the filtered report against the same ChangeSet gives the same
\* keys and, for each key, the same DA, LH, LF, FN, FNDA, FNF and FNH.
C2_Idempotent ==
  pc = "refiltered" =>
    /\ DictKeys(refiltered) = DictKeys(filtered_coverage)
    /\ \A k \in DictKeys(refiltered) :
         DictGet(refiltered, k) = DictGet(filtered_coverage, k)

\* The second pass ran on a record that two changeset keys match with different
\* non-empty results, and that lost DA entries in the first pass.
C2_Witness ==
  /\ pc = "refiltered"
  /\ \E k \in DictKeys(refiltered) :
       /\ \E i, j \in LiveMatchesOf(k) :
            FilteredDA(DictGet(coverage_data, k).DA, git_diff_changes[i].val)
              # FilteredDA(DictGet(coverage_data, k).DA, git_diff_changes[j].val)
       /\ Len(DictGet(refiltered, k).DA) < Len(DictGet(coverage_data, k).DA)

\* C3: a coverage key whose DA lines meet the line set of no changeset key that
\* matches it is not a key of the output; every output record has a non-empty
\* DA list and non-zero LH and LF.
C3_DropEmpty ==
  Filtered =>
    /\ \A k \in DictKeys(coverage_data) :
         LiveMatchesOf(k) = {} => k \notin DictKeys(filtered_coverage)
    /\ \A n \in DOMAIN filtered_coverage :
         /\ Len(filtered_coverage[n].val.DA) > 0
         /\ filtered_coverage[n].val.LH > 0
         /\ filtered_coverage[n].val.LF > 0

\* A record with DA lines is matched, loses all of them and is dropped, while
\* another record is kept.
C3_Witness ==
  /\ Filtered
  /\ filtered_coverage # EmptyDict
  /\ \E k \in DictKeys(coverage_data) :
       /\ MatchesOf(k) # {}
       /\ DictGet(coverage_data, k).DA # <<>>
       /\ k \notin DictKeys(filtered_coverage)

\* C4: in every output record LH is the number of entries of its DA list and LF
\* the number of distinct line numbers in it.
C4_Summary ==
  Filtered =>
    \A n \in DOMAIN filtered_coverage :
      LET rec == filtered_coverage[n].val IN
      /\ rec.LH = Len(rec.DA)
      /\ rec.LF = Cardinality(DALineSet(rec.DA))

\* An output record repeats a line number (LH # LF), holds an entry with zero
\* hits, and was parsed with other LH and LF values.
C4_Witness ==
  /\ Filtered
  /\ \E n \in DOMAIN filtered_coverage :
       LET rec == filtered_coverage[n].val
           old == DictGet(coverage_data, filtered_coverage[n].key) IN
       /\ rec.LH # rec.LF
       /\ \E e \in DAEntries(rec.DA) : e[2] = 0
       /\ old.LH # rec.LH /\ old.LF # rec.LF

\* C5: FN, FNDA, FNF and FNH of every output record are those of the parsed
\* record of the same key.
C5_Passthrough ==
  Filtered =>
    \A n \in DOMAIN filtered_coverage :
      LET rec == filtered_coverage[n].val
          old == DictGet(coverage_data, filtered_coverage[n].key) IN
      /\ rec.FN = old.FN /\ rec.FNDA = old.FNDA
      /\ rec.FNF = old.FNF /\ rec.FNH = old.FNH

\* A record with function data survives with fewer DA entries.
C5_Witness ==
  /\ Filtered
  /\ \E n \in DOMAIN filtered_coverage :
       LET rec == filtered_coverage[n].val
           old == DictGet(coverage_data, filtered_coverage[n].key) IN
       /\ rec.FN # <<>> /\ rec.FNH > 0
       /\ Len(rec.DA) < Len(old.DA)

\* The ChangeSet without its i-th entry.
WithoutEntry(d, i) == SubSeq(d, 1, i - 1) \o SubSeq(d, i + 1, Len(d))

\* C8: every output key is a key of the parsed report that is a substring of a
\* changeset key; a coverage key that is a substring of no changeset key is not
\* in the output; a changeset file that contains no coverage key changes nothing
\* in the output.
C8_Matching ==
  Filtered =>
    /\ \A k \in DictKeys(filtered_coverage) :
         /\ k \in DictKeys(coverage_data)
         /\ \E f \in DictKeys(git_diff_changes) : IsSubstring(k, f)
    /\ \A k \in DictKeys(coverage_data) :
         (\A f \in DictKeys(git_diff_changes) : ~IsSubstring(k, f))
           => k \notin DictKeys(filtered_coverage)
    /\ \A i \in DOMAIN git_diff_changes :
         (\A k \in DictKeys(coverage_data) : ~IsSubstring(k, git_diff_changes[i].key))
           => filter_lcov_by_git_diff(WithoutEntry(git_diff_changes, i), coverage_data)
                = filtered_coverage

\* The output holds a key that differs from the changeset key it lies in, the
\* report holds a key with DA lines that lies in no changeset key, and the
\* ChangeSet holds a file with lines that contains no key of the report.
C8_Witness ==
  /\ Filtered
  /\ \E k \in DictKeys(filtered_coverage) :
       \E f \in DictKeys(git_diff_changes) : IsSubstring(k, f) /\ k # f
  /\ \E i \in DOMAIN git_diff_changes :
       /\ git_diff_changes[i].val # {}
       /\ \A k \in DictKeys(coverage_data) : ~IsSubstring(k, git_diff_changes[i].key)

\* C10: the output record of a coverage key is its parsed DA list filtered by
\* the line set of the last changeset key, in iteration order, that contains the
\* key and whose line set meets the DA lines; without such a key there is none.
C10_LastMatchWins ==
  Filtered =>
    \A k \in DictKeys(coverage_data) :
      IF LiveMatchesOf(k) = {} THEN k \notin DictKeys(filtered_coverage)
      ELSE /\ k \in DictKeys(filtered_coverage)
           /\ DictGet(filtered_coverage, k).DA =
                FilteredDA(DictGet(coverage_data, k).DA,
                           git_diff_changes[Max(LiveMatchesOf(k))].val)

\* Two changeset keys match a record with different non-empty results.
C10_Witness ==
  /\ pc = "filtered"
  /\ \E k \in DictKeys(coverage_data) :
       \E i, j \in LiveMatchesOf(k) :
         /\ i < j
         /\ FilteredDA(DictGet(coverage_data, k).DA, git_diff_changes[i].val)
              # FilteredDA(DictGet(coverage_data, k).DA, git_diff_changes[j].val)

\* An earlier match is non-empty and a later match of the same record is empty.
C10_LaterEmpty ==
  /\ pc = "filtered"
  /\ \E k \in DictKeys(coverage_data) :
       \E i \in LiveMatchesOf(k) : \E j \in MatchesOf(k) \ LiveMatchesOf(k) : i < j

----------------------------------------------------------------------------
(* DiffSpec: get_git_diff_lines on any result of the diff command, then the    *)
(* filter on a report of one record.                                           *)

\* The added and removed fields of a numstat line: counts, or "-" for both
\* fields of a binary file.
CountFields ==
  {<< <<"0">>, <<"1">> >>, << <<"3">>, <<"0">> >>, << <<"1", "0">>, <<"2">> >>,
   << <<"-">>, <<"-">> >>}

\* The paths the command reports; one of them holds a blank.
DiffPaths == CsKeys \cup {<<"a", " ", "b">>}

\* What the command reports: a file with its two fields, or a header line.
NumstatEntries ==
  {[kind |-> "file", added |-> c[1], removed |-> c[2], path |-> p] :
     c \in CountFields, p \in DiffPaths}
  \cup {[kind |-> "header", added |-> <<>>, removed |-> <<>>, path |-> <<>>]}

\* The line of stdout for an entry: "<added>\t<removed>\t<path>", or a
\* "diff --git" header.
NumstatLine(e) ==
  IF e.kind = "header" THEN DiffHeader \o <<" ">> \o <<"a", "/", "b">>
  ELSE e.added \o <<TAB>> \o e.removed \o <<TAB>> \o e.path

RECURSIVE StdoutOf(_)
\* result.stdout: one line per entry, each ended by a newline.
StdoutOf(ns) ==
  IF Len(ns) = 0 THEN <<>>
  ELSE NumstatLine(Head(ns)) \o <<NL>> \o StdoutOf(Tail(ns))

\* The outputs of the command: no path is reported twice.
NumstatOutputs ==
  {ns \in SeqsUpTo(NumstatEntries, MaxDiffLines) :
     \A i, j \in DOMAIN ns :
       (ns[i].kind = "file" /\ ns[j].kind = "file" /\ ns[i].path = ns[j].path)
         => i = j}

\* The DA list of the report of the end-to-end example (DA:1,5 DA:2,0 DA:5,3).
ExampleDA == <<<<1, 5>>, <<2, 0>>, <<5, 3>>>>

\* Reports of one record with that DA list.
ExampleReports ==
  {<<[key |-> k, val |-> CoverageRecord(ExampleDA, FunctionDataOf(k))]>> :
     k \in CovKeys}

DiffInit ==
  /\ pc = "start"
  /\ numstat \in NumstatOutputs
  /\ returncode \in {0, 1}
  /\ stdout = StdoutOf(numstat)
  /\ git_diff_changes = EmptyDict
  /\ coverage_data = EmptyDict
  /\ filtered_coverage = EmptyDict
  /\ refiltered = EmptyDict
  /\ report_exists = TRUE /\ report = <<>>
  /\ output_file = NoFile /\ error = NoError /\ started = <<>>

\* The command failed: raise Exception(...).
DiffRaisesException ==
  /\ pc = "start"
  /\ DiffRaises(returncode)
  /\ error' = "Exception"
  /\ pc' = "aborted"
  /\ UNCHANGED <<numstat, returncode, stdout, report_exists, report,
                 git_diff_changes, coverage_data, filtered_coverage, refiltered,
                 output_file, started>>

DiffReturns ==
  /\ pc = "start"
  /\ ~DiffRaises(returncode)
  /\ git_diff_changes' = get_git_diff_lines(stdout)
  /\ pc' = "diffed"
  /\ UNCHANGED <<numstat, returncode, stdout, report_exists, report,
                 coverage_data, filtered_coverage, refiltered, output_file,
                 error, started>>

FilterDiffed ==
  /\ pc = "diffed"
  /\ \E r \in ExampleReports :
       /\ coverage_data' = r
       /\ filtered_coverage' = filter_lcov_by_git_diff(git_diff_changes, r)
  /\ pc' = "filtered"
  /\ UNCHANGED <<numstat, returncode, stdout, report_exists, report,
                 git_diff_changes, refiltered, output_file, error, started>>

DiffNext == DiffRaisesException \/ DiffReturns \/ FilterDiffed

DiffSpec == DiffInit /\ [][DiffNext]_vars

\* The entries of the output that report a file with a decimal added count.
NumericEntries ==
  {i \in DOMAIN numstat : numstat[i].kind = "file" /\ IsDigit(numstat[i].added)}

\* C7: every reported file with a decimal added count n is mapped to exactly
\* 1..n, every reported file with a non-numeric added field is no key of the
\* ChangeSet, and a coverage record matched by one reported file with n added
\* lines keeps exactly its DA entries with line number <= n.
C7_Claim ==
  pc \in {"diffed", "filtered"} =>
    /\ \A i \in DOMAIN numstat :
         numstat[i].kind = "file" =>
           IF IsDigit(numstat[i].added)
           THEN /\ numstat[i].path \in DictKeys(git_diff_changes)
                /\ DictGet(git_diff_changes, numstat[i].path)
                     = 1..ToInt(numstat[i].added)
           ELSE numstat[i].path \notin DictKeys(git_diff_changes)
    /\ pc = "filtered" =>
         \A i \in NumericEntries :
           LET k == coverage_data[1].key
               n == ToInt(numstat[i].added)
               LineUpTo(e) == e[1] <= n
               kept == SelectSeq(coverage_data[1].val.DA, LineUpTo) IN
           (/\ IsSubstring(k, numstat[i].path)
            /\ \A j \in NumericEntries : IsSubstring(k, numstat[j].path) => j = i)
             => IF kept = <<>> THEN filtered_coverage = EmptyDict
                ELSE /\ DictKeys(filtered_coverage) = {k}
                     /\ DictGet(filtered_coverage, k).DA = kept
                     /\ DictGet(filtered_coverage, k).LH = Len(kept)

\* The same statement for the outputs in which no reported path holds
\* whitespace: it holds there, so the blank in a path is what breaks C7.
C7_PathsWithoutBlanks ==
  (\A i \in DOMAIN numstat : \A c \in DOMAIN numstat[i].path :
     numstat[i].path[c] \notin Whitespace) => C7_Claim

----------------------------------------------------------------------------
(* ParseSpec: parse_lcov_report on any report, then the filter on its result.  *)

\* The lines a report is made of: well-formed directives, a DA line with blanks
\* around it, and malformed ones (DA:x,1  DA:1  LF:x).
LcovLines ==
  {SFTag \o <<"b">>, SFTag \o <<"a", "b">>,
   DATag \o <<"1", ",", "0">>, DATag \o <<"1", ",", "4">>,
   <<" ">> \o DATag \o <<"2", ",", "4">> \o <<" ">>,
   DATag \o <<"x", ",", "1">>, DATag \o <<"1">>,
   FNTag \o <<"1", ",", "f">>, FNDATag \o <<"4", ",", "f">>,
   FNFTag \o <<"1">>, FNHTag \o <<"1">>, LHTag \o <<"5">>, LFTag \o <<"x">>,
   EndOfRecord}

Reports == SeqsUpTo(LcovLines, MaxReportLines)

\* ChangeSets as get_git_diff_lines builds them for one reported file.
OneFileChangeSets ==
  {<<[key |-> <<"a", "a", "b">>, val |-> RangeSet(n)]>> : n \in 0..MaxLine}

ParseInit ==
  /\ pc = "start"
  /\ report_exists \in BOOLEAN
  /\ report \in (IF report_exists THEN Reports ELSE {<<>>})
  /\ numstat = <<>> /\ returncode = 0 /\ stdout = <<>>
  /\ git_diff_changes = EmptyDict
  /\ coverage_data = EmptyDict
  /\ filtered_coverage = EmptyDict
  /\ refiltered = EmptyDict
  /\ output_file = NoFile /\ error = NoError /\ started = <<>>

ParseRaises ==
  /\ pc = "start"
  /\ LET res == parse_lcov_report(report_exists, report) IN
       /\ res.err # NoError
       /\ error' = res.err
  /\ pc' = "aborted"
  /\ UNCHANGED <<numstat, returncode, stdout, report_exists, report,
                 git_diff_changes, coverage_data, filtered_coverage, refiltered,
                 output_file, started>>

ParseReturns ==
  /\ pc = "start"
  /\ LET res == parse_lcov_report(report_exists, report) IN
       /\ res.err = NoError
       /\ coverage_data' = res.data
  /\ pc' = "parsed"
  /\ UNCHANGED <<numstat, returncode, stdout, report_exists, report,
                 git_diff_changes, filtered_coverage, refiltered, output_file,
                 error, started>>

FilterParsed ==
  /\ pc = "parsed"
  /\ \E cs \in OneFileChangeSets :
       /\ git_diff_changes' = cs
       /\ filtered_coverage' = filter_lcov_by_git_diff(cs, coverage_data)
  /\ pc' = "filtered"
  /\ UNCHANGED <<numstat, returncode, stdout, report_exists, report,
                 coverage_data, refiltered, output_file, error, started>>

ParseNext == ParseRaises \/ ParseReturns \/ FilterParsed

ParseSpec == ParseInit /\ [][ParseNext]_vars

\* Whether line i of the report is a SF: line, and its path.
IsSF(i) == StartsWith(Strip(report[i]), SFTag)
SFPath(i) == Drop(Strip(report[i]), 3)

\* Whether line i of the report is a DA: line, and its pair.
IsDALine(i) == StartsWith(Strip(report[i]), DATag)
DAPair(i) ==
  LET parts == SplitSep(Drop(Strip(report[i]), 3), Comma, <<>>) IN
  <<ToInt(parts[1]), ToInt(parts[2])>>

\* The positions of the DA lines of the record of path k: those after the last
\* SF: line of k and before the next SF: line.
RecordDAPositions(k) ==
  LET s == Max({i \in DOMAIN report : IsSF(i) /\ SFPath(i) = k}) IN
  {i \in DOMAIN report :
     /\ i > s
     /\ IsDALine(i)
     /\ \A j \in (s + 1)..(i - 1) : ~IsSF(j)}

RECURSIVE PairsAt(_, _)
\* The DA pairs at the positions P from position i on, in file order.
PairsAt(P, i) ==
  IF i > Len(report) THEN <<>>
  ELSE (IF i \in P THEN <<DAPair(i)>> ELSE <<>>) \o PairsAt(P, i + 1)

\* No line number twice in a DA list.
UniqueLines(da) == \A i, j \in DOMAIN da : da[i][1] = da[j][1] => i = j

RECURSIVE IsSubsequence(_, _)
\* s is t with some entries left out.
IsSubsequence(s, t) ==
  IF Len(s) = 0 THEN TRUE
  ELSE IF Len(t) = 0 THEN FALSE
  ELSE IF Head(s) = Head(t) THEN IsSubsequence(Tail(s), Tail(t))
  ELSE IsSubsequence(s, Tail(t))

\* The DA list of every parsed record is the record's DA pairs in file order.
ParsedInFileOrder ==
  \A k \in DictKeys(coverage_data) :
    DictGet(coverage_data, k).DA = PairsAt(RecordDAPositions(k), 1)

\* C9 as stated: the DA list of every parsed record is the record's DA pairs in
\* file order and holds each line number at most once, and so does the DA list
\* of every record the filter produces.
C9_Claim ==
  pc \in {"parsed", "filtered"} =>
    /\ ParsedInFileOrder
    /\ \A k \in DictKeys(coverage_data) : UniqueLines(DictGet(coverage_data, k).DA)
    /\ \A k \in DictKeys(filtered_coverage) :
         UniqueLines(DictGet(filtered_coverage, k).DA)

\* C9, amended: the DA list of every parsed record is the record's DA pairs in
\* file order with repeated line numbers kept, so its line numbers are unique
\* exactly when those of the record's DA lines are; the DA list of a record the
\* filter produces is a subsequence of the parsed one, unique when that one is.
C9_FileOrderKeepsRepeats ==
  pc \in {"parsed", "filtered"} =>
    /\ ParsedInFileOrder
    /\ \A k \in DictKeys(coverage_data) :
         UniqueLines(DictGet(coverage_data, k).DA)
           <=> (\A i, j \in RecordDAPositions(k) :
                  DAPair(i)[1] = DAPair(j)[1] => i = j)
    /\ \A k \in DictKeys(filtered_coverage) :
         /\ IsSubsequence(DictGet(filtered_coverage, k).DA,
                          DictGet(coverage_data, k).DA)
         /\ UniqueLines(DictGet(coverage_data, k).DA)
              => UniqueLines(DictGet(filtered_coverage, k).DA)

\* A record was parsed from DA lines that repeat a line number, and the filter
\* kept the repeated entries.
C9_Witness ==
  /\ pc = "filtered"
  /\ \E k \in DictKeys(filtered_coverage) :
       /\ ~UniqueLines(DictGet(coverage_data, k).DA)
       /\ ~UniqueLines(DictGet(filtered_coverage, k).DA)

----------------------------------------------------------------------------
(* Spec: main.  Each step calls one function on what the environment holds at  *)
(* the time of the call; an exception ends the run.                            *)

\* An output file left by an earlier run.
StaleFile == <<SFTag \o <<"o", "l", "d">>, EndOfRecord>>

\* The reports main is run on (the order of the steps is what main adds).
MainReports == SeqsUpTo(LcovLines, MaxReportLines - 1)

MainSteps == <<"diff", "parse", "filter", "write">>

Init ==
  /\ pc = "start"
  /\ output_file \in {NoFile, StaleFile}
  /\ numstat = <<>> /\ returncode = 0 /\ stdout = <<>>
  /\ report_exists = TRUE /\ report = <<>>
  /\ git_diff_changes = EmptyDict
  /\ coverage_data = EmptyDict
  /\ filtered_coverage = EmptyDict
  /\ refiltered = EmptyDict
  /\ error = NoError
  /\ started = <<>>

\* Step 1, get_git_diff_lines raises: the exception leaves main.
Step1DiffRaises ==
  /\ pc = "start"
  /\ \E rc \in {0, 1} : DiffRaises(rc)
  /\ started' = Append(started, "diff")
  /\ error' = "Exception"
  /\ pc' = "aborted"
  /\ UNCHANGED <<numstat, returncode, stdout, report_exists, report,
                 git_diff_changes, coverage_data, filtered_coverage, refiltered,
                 output_file>>

\* Step 1, get_git_diff_lines returns.
Step1DiffReturns ==
  /\ pc = "start"
  /\ \E rc \in {0, 1}, ns \in NumstatOutputs :
       /\ ~DiffRaises(rc)
       /\ git_diff_changes' = get_git_diff_lines(StdoutOf(ns))
  /\ started' = Append(started, "diff")
  /\ pc' = "diffed"
  /\ UNCHANGED <<numstat, returncode, stdout, report_exists, report,
                 coverage_data, filtered_coverage, refiltered, output_file, error>>

\* Mutant: the exception of the parse step is swallowed and main goes on with
\* an empty report.
Step2ParseRaisesSwallowed ==
  /\ pc = "diffed"
  /\ \E exists \in BOOLEAN, lines \in MainReports :
       LET res == parse_lcov_report(exists, lines) IN
       /\ res.err # NoError
       /\ error' = res.err
  /\ started' = Append(started, "parse")
  /\ coverage_data' = EmptyDict
  /\ pc' = "parsed"
  /\ UNCHANGED <<numstat, returncode, stdout, report_exists, report,
                 git_diff_changes, filtered_coverage, refiltered, output_file>>

\* Step 2, parse_lcov_report raises: the exception leaves main.
Step2ParseRaises ==
  /\ pc = "diffed"
  /\ \E exists \in BOOLEAN, lines \in MainReports :
       LET res == parse_lcov_report(exists, lines) IN
       /\ res.err # NoError
       /\ error' = res.err
  /\ started' = Append(started, "parse")
  /\ pc' = "aborted"
  /\ UNCHANGED <<numstat, returncode, stdout, report_exists, report,
                 git_diff_changes, coverage_data, filtered_coverage, refiltered,
                 output_file>>

\* Step 2, parse_lcov_report returns.
Step2ParseReturns ==
  /\ pc = "diffed"
  /\ \E exists \in BOOLEAN, lines \in MainReports :
       LET res == parse_lcov_report(exists, lines) IN
       /\ res.err = NoError
       /\ coverage_data' = res.data
  /\ started' = Append(started, "parse")
  /\ pc' = "parsed"
  /\ UNCHANGED <<numstat, returncode, stdout, report_exists, report,
                 git_diff_changes, filtered_coverage, refiltered, output_file,
                 error>>

\* Step 3, filter_lcov_by_git_diff.
Step3Filter ==
  /\ pc = "parsed"
  /\ filtered_coverage' = filter_lcov_by_git_diff(git_diff_changes, coverage_data)
  /\ started' = Append(started, "filter")
  /\ pc' = "filtered"
  /\ UNCHANGED <<numstat, returncode, stdout, report_exists, report,
                 git_diff_changes, coverage_data, refiltered, output_file, error>>

\* Step 4, save_filtered_lcov_report returns: the file holds the report.
Step4SaveReturns ==
  /\ pc = "filtered"
  /\ output_file' = save_filtered_lcov_report(filtered_coverage)
  /\ started' = Append(started, "write")
  /\ pc' = "done"
  /\ UNCHANGED <<numstat, returncode, stdout, report_exists, report,
                 git_diff_changes, coverage_data, filtered_coverage, refiltered,
                 error>>

\* Step 4, open or write fails: the file is untouched (open failed) or holds
\* the lines written before the failure.
Step4SaveRaises ==
  /\ pc = "filtered"
  /\ \/ output_file' = output_file
     \/ \E n \in 0..Len(save_filtered_lcov_report(filtered_coverage)) :
          output_file' = SubSeq(save_filtered_lcov_report(filtered_coverage), 1, n)
  /\ started' = Append(started, "write")
  /\ error' = "OSError"
  /\ pc' = "aborted"
  /\ UNCHANGED <<numstat, returncode, stdout, report_exists, report,
                 git_diff_changes, coverage_data, filtered_coverage, refiltered>>

Next ==
  \/ Step1DiffRaises
  \/ Step1DiffReturns
  \/ Step2ParseRaises
  \/ Step2ParseReturns
  \/ Step3Filter
  \/ Step4SaveReturns
  \/ Step4SaveRaises

Spec == Init /\ [][Next]_vars

\* The exceptions of the diff and the parse step.
EarlyErrors ==
  {"Exception", "FileNotFoundError", "ValueError", "TypeError", "IndexError"}

IsPrefix(s, t) == Len(s) <= Len(t) /\ SubSeq(t, 1, Len(s)) = s

StartedSet == {started[i] : i \in DOMAIN started}

\* The steps start in the order diff, parse, filter, write; after a failure of
\* the diff or the parse step the run is over and the write step has not
\* started; the write step starts only after the three others, without error.
C6_Order ==
  /\ IsPrefix(started, MainSteps)
  /\ error \in EarlyErrors => (pc = "aborted" /\ "write" \notin StartedSet)
  /\ "write" \in StartedSet =>
       (started = MainSteps /\ error \in {NoError, "OSError"})
  /\ pc = "aborted" <=> error # NoError

\* The output file changes only in the write step, taken after diff, parse and
\* filter have returned.
C6_WriteStep ==
  output_file' # output_file =>
    /\ pc = "filtered" /\ error = NoError
    /\ started = <<"diff", "parse", "filter">>
    /\ started' = MainSteps

\* C6: the steps run in the order diff, parse, filter, write without recovery:
\* a failed diff command, a missing report or a malformed numeric field ends
\* the run before the write step, and the output file is created or modified
\* only after diff, parse and filter have all succeeded.
C6_AbortBeforeWrite == []C6_Order /\ [][C6_WriteStep]_vars

\* A malformed numeric field ended a run whose diff step had found changes; the
\* output file of an earlier run is as it was.
C6_Witness ==
  /\ pc = "aborted"
  /\ error = "ValueError"
  /\ started = <<"diff", "parse">>
  /\ git_diff_changes # EmptyDict
  /\ output_file = StaleFile

\* A run that wrote its report.
C6_Written ==
  /\ pc = "done"
  /\ Len(output_file) > 0 /\ output_file # StaleFile /\ output_file # NoFile

=============================================================================
